---- MODULE Spec2Model ----
(***************************************************************************)
(* A model of DatabaseComparator (db_comparison.py): the structural diff   *)
(* of two MySQL schemas (compare_structures), the additive DDL synthesis   *)
(* (generate_alter_statements) and the synchronisation of the source       *)
(* toward the target (sync_structures, handle_dosen_tables).               *)
(*                                                                         *)
(* Strings the code inspects (column types, defaults) are sequences of     *)
(* one-character strings, so that lower(), upper() and the `in` substring  *)
(* test are computed and not assumed.  Identifiers the code only copies    *)
(* (table and column names) are TLA+ strings.                              *)
(***************************************************************************)
EXTENDS Integers, Sequences, FiniteSets, TLC

(* ------------------------------------------------------------------ *)
(* Bounds of the model                                                 *)
(* ------------------------------------------------------------------ *)

\* Longest column list drawn for generate_alter_statements and the
\* per-table comparison.
MaxCols == 2

\* Most errors of the environment (the two MySQL servers) that one run
\* survives: failed introspection queries and the statement errors the code
\* swallows or repairs.  An error that ends the run needs no bound.
MaxFaults == 1

\* The most calls of close_connections in one behaviour
MaxCloses == 2

\* Most introspection queries that fail in a call of compare_structures made
\* on its own
MaxReadFaults == 2

(* ------------------------------------------------------------------ *)
(* Strings as character sequences                                      *)
(* ------------------------------------------------------------------ *)

UpperAlpha ==
  <<"A","B","C","D","E","F","G","H","I","J","K","L","M",
    "N","O","P","Q","R","S","T","U","V","W","X","Y","Z">>

LowerAlpha ==
  <<"a","b","c","d","e","f","g","h","i","j","k","l","m",
    "n","o","p","q","r","s","t","u","v","w","x","y","z">>

\* str.lower() on one character
LowerChar(c) ==
  IF \E i \in 1..26 : UpperAlpha[i] = c
  THEN LowerAlpha[CHOOSE i \in 1..26 : UpperAlpha[i] = c]
  ELSE c

\* str.upper() on one character
UpperChar(c) ==
  IF \E i \in 1..26 : LowerAlpha[i] = c
  THEN UpperAlpha[CHOOSE i \in 1..26 : LowerAlpha[i] = c]
  ELSE c

Lower(s) == [i \in 1..Len(s) |-> LowerChar(s[i])]

Upper(s) == [i \in 1..Len(s) |-> UpperChar(s[i])]

\* Python's `sub in s` on strings
Contains(sub, s) ==
  \E i \in 0..(Len(s) - Len(sub)) : SubSeq(s, i + 1, i + Len(sub)) = sub

\* The string literals of generate_alter_statements
STR_timestamp == <<"t","i","m","e","s","t","a","m","p">>

STR_datetime == <<"d","a","t","e","t","i","m","e">>

STR_char == <<"c","h","a","r">>

STR_text == <<"t","e","x","t">>

STR_CURRENT_TIMESTAMP ==
  <<"C","U","R","R","E","N","T","_","T","I","M","E","S","T","A","M","P">>

STR_NOT_NULL == <<" ","N","O","T"," ","N","U","L","L">>

STR_DEFAULT == <<" ","D","E","F","A","U","L","T"," ">>

STR_QUOTE == <<"'">>

\* Python's None for a column default: a default is <<>> (None) or <<s>>
None == <<>>

Some(s) == <<s>>

(* ------------------------------------------------------------------ *)
(* Column descriptors: the rows of SHOW COLUMNS                        *)
(* ------------------------------------------------------------------ *)

Col(f, t, n, k, d, e) ==
  [Field |-> f, Type |-> t, Null |-> n, Key |-> k, Default |-> d, Extra |-> e]

TY_int == <<"i","n","t">>

TY_bigint == <<"b","i","g","i","n","t">>

TY_varchar == <<"v","a","r","c","h","a","r","(","2","0",")">>

TY_TEXT == <<"T","E","X","T">>

TY_datetime == <<"d","a","t","e","t","i","m","e">>

TY_Timestamp == <<"T","i","m","e","s","t","a","m","p">>

DF_zero == Some(<<"0">>)

DF_foo == Some(<<"f","o","o">>)

DF_CT == Some(STR_CURRENT_TIMESTAMP)

DF_ct == Some(<<"c","u","r","r","e","n","t","_","t","i","m","e","s","t","a","m","p">>)

\* All sequences over S of length at most n
SeqsUpTo(S, n) == UNION {[1..k -> S] : k \in 0..n}

Range(s) == {s[i] : i \in DOMAIN s}

\* A column list as SHOW COLUMNS returns it: no two rows share a Field
DistinctFields(cols) ==
  \A i, j \in DOMAIN cols : cols[i].Field = cols[j].Field => i = j

\* Target-side columns drawn for the pure functions.  Column "c" takes every
\* combination of type, nullability and default; column "a" varies one
\* field at a time from the source's "a".
COL_a == Col("a", TY_int, "NO", "PRI", None, "auto_increment")

COL_b == Col("b", TY_varchar, "YES", "", DF_foo, "")

COL_c == Col("c", TY_int, "YES", "", None, "")

ColTypes == {TY_int, TY_varchar, TY_TEXT, TY_datetime, TY_Timestamp}

ColDefaults == {None, DF_zero, DF_CT, DF_ct}

SrcColumns == {COL_a, COL_b, COL_c}

TgtColumns ==
  {COL_a, COL_b}
  \cup {[COL_a EXCEPT !.Type = TY_bigint], [COL_a EXCEPT !.Null = "YES"],
        [COL_a EXCEPT !.Key = ""], [COL_a EXCEPT !.Default = DF_zero],
        [COL_a EXCEPT !.Extra = ""]}
  \cup {Col("c", t, n, "", d, "") : t \in ColTypes, n \in {"YES", "NO"},
                                     d \in ColDefaults}

(* ------------------------------------------------------------------ *)
(* generate_alter_statements                                           *)
(* ------------------------------------------------------------------ *)

DefaultClause_AlwaysQuoted(col) ==
  IF col.Default = None THEN <<>>
  ELSE STR_DEFAULT \o STR_QUOTE \o col.Default[1] \o STR_QUOTE

\* The DEFAULT clause appended for one added column
DefaultClause(col) ==
  IF col.Default = None THEN <<>>
  ELSE IF /\ Lower(col.Type) \in {STR_timestamp, STR_datetime}
          /\ Upper(col.Default[1]) = STR_CURRENT_TIMESTAMP
       THEN STR_DEFAULT \o STR_CURRENT_TIMESTAMP
  ELSE IF \/ Contains(STR_char, Lower(col.Type))
          \/ Contains(STR_text, Lower(col.Type))
       THEN STR_DEFAULT \o STR_QUOTE \o col.Default[1] \o STR_QUOTE
  ELSE STR_DEFAULT \o col.Default[1]

\* f"ALTER TABLE {table_name} ADD COLUMN {Field} {Type}" followed by the
\* text appended to it (suffix)
AddColumnStmt(table_name, col) ==
  [op |-> "ADD COLUMN", table |-> table_name, Field |-> col.Field,
   Type |-> col.Type,
   suffix |-> (IF col.Null = "NO" THEN STR_NOT_NULL ELSE <<>>)
              \o DefaultClause(col)]

generate_alter_statements_AllTarget(table_name, source_cols_, target_cols_) ==
  [i \in 1..Len(target_cols_) |-> AddColumnStmt(table_name, target_cols_[i])]

generate_alter_statements(table_name, source_cols_, target_cols_) ==
  LET source_col_names == {source_cols_[i].Field : i \in DOMAIN source_cols_}
      added == SelectSeq(target_cols_,
                         LAMBDA col : col.Field \notin source_col_names)
  IN  [i \in 1..Len(added) |-> AddColumnStmt(table_name, added[i])]

(* ------------------------------------------------------------------ *)
(* compare_structures: the pure part                                   *)
(* ------------------------------------------------------------------ *)

MissingInSource_Swapped(source_tables_, target_tables_) ==
  source_tables_ \ target_tables_

\* target_tables - source_tables
MissingInSource(source_tables_, target_tables_) ==
  target_tables_ \ source_tables_

\* source_tables - target_tables
MissingInTarget(source_tables_, target_tables_) ==
  source_tables_ \ target_tables_

CommonTables(source_tables_, target_tables_) ==
  source_tables_ \cap target_tables_

StructureDiffers_ByFieldSet(source_structure, target_structure) ==
  Range(source_structure) # Range(target_structure)

\* source_structure != target_structure on two lists of dicts
StructureDiffers(source_structure, target_structure) ==
  source_structure # target_structure

NoDifference_Never(missing, different) == FALSE

\* not (missing_in_source or different_structures)
NoDifference(missing, different) == missing = {} /\ DOMAIN different = {}

\* The dict built by the loop over the common tables
DifferentStructures(common, source_of, target_of) ==
  [table \in {t \in common : StructureDiffers(source_of[t], target_of[t])} |->
     [source |-> source_of[table], target |-> target_of[table]]]

(* ------------------------------------------------------------------ *)
(* The two schemas                                                     *)
(* ------------------------------------------------------------------ *)

\* The special-cased tables of handle_dosen_tables and sync_structures
SpecialTables == {"dosen", "dosen_wali_prodi"}

\* The ordinary tables of the two schemas; orders may reference customers
GenericTables == {"orders", "customers"}

AllTables == SpecialTables \cup GenericTables

\* Foreign keys as information_schema reports them.  has_row says whether
\* REFERENTIAL_CONSTRAINTS holds a row for the constraint.
Fk(t, c, rt, rc, nm, del, upd, row) ==
  [table |-> t, col |-> c, ref_table |-> rt, ref_col |-> rc, name |-> nm,
   delete_rule |-> del, update_rule |-> upd, has_row |-> row]

\* Table options as SHOW CREATE TABLE prints them after the column list
OPT_ENGINE == "ENGINE=InnoDB"

OPT_AUTO_INCREMENT == "AUTO_INCREMENT=5"

OPT_CHARSET == "DEFAULT CHARSET=latin1"

OPT_COMMENT_PAREN == "COMMENT='orders (legacy)'"

\* Option texts that hold a ')' character
HasParen(opt) == opt = OPT_COMMENT_PAREN

\* Option texts matched by the pattern AUTO_INCREMENT=\d+\s*
IsAutoIncrement(opt) == opt = OPT_AUTO_INCREMENT

NoTable == [cols |-> <<>>, opts |-> <<>>]

\* One database: its tables, their columns and options, its foreign keys,
\* and whether dosen carries the unique index idx_dosen_nidn
Schema(tabs, defs, fks, idx) ==
  [tables |-> tabs, def |-> defs, fks |-> fks, idx_dosen_nidn |-> idx]

(* ------------------------------------------------------------------ *)
(* CREATE TABLE statements and the string surgery of sync_structures   *)
(* ------------------------------------------------------------------ *)

\* A referential action as SHOW CREATE TABLE prints it, word by word
RuleWords(rule) ==
  CASE rule = "SET NULL" -> <<"SET", "NULL">>
    [] rule = "NO ACTION" -> <<"NO", "ACTION">>
    [] OTHER -> <<rule>>

\* The words that follow "REFERENCES tbl (col)" in an inline constraint
\* clause: SHOW CREATE TABLE leaves out a RESTRICT action
ClauseTail(fk) ==
  (IF fk.delete_rule = "RESTRICT" THEN <<>>
   ELSE <<"ON", "DELETE">> \o RuleWords(fk.delete_rule))
  \o (IF fk.update_rule = "RESTRICT" THEN <<>>
      ELSE <<"ON", "UPDATE">> \o RuleWords(fk.update_rule))

\* The statement SHOW CREATE TABLE returns for a table of db
ShowCreateTable(db, t) ==
  [table |-> t, cols |-> db.def[t].cols,
   fk_tails |-> {ClauseTail(fk) : fk \in {f \in db.fks : f.table = t}},
   residue |-> {}, options |-> db.def[t].opts]

\* The optional group (\s+ON\s+<kw>\s+[A-Z]+)? applied at the head of words
SkipOnClause(kw, words) ==
  IF Len(words) >= 3 /\ words[1] = "ON" /\ words[2] = kw
  THEN SubSeq(words, 4, Len(words))
  ELSE words

\* What re.sub leaves of one inline constraint clause
ClauseResidue(tail) == SkipOnClause("UPDATE", SkipOnClause("DELETE", tail))

\* re.sub(r',\s*CONSTRAINT ... FOREIGN KEY ... REFERENCES ...', '', stmt)
StripForeignKeys(stmt) ==
  [stmt EXCEPT !.fk_tails = {},
               !.residue = {ClauseResidue(tl) : tl \in stmt.fk_tails} \ {<<>>}]

StripAutoIncrement_KeepAll(stmt) == stmt

\* rsplit(')', 1) and re.sub(r'AUTO_INCREMENT=\d+\s*', '', table_options):
\* only the text after the last ')' of the statement is cleaned
StripAutoIncrement(stmt) ==
  LET opts == stmt.options
      paren == {i \in DOMAIN opts : HasParen(opts[i])}
      cut == IF paren = {} THEN 0
             ELSE CHOOSE i \in paren : \A j \in paren : j <= i
      main_body == SubSeq(opts, 1, cut)
      table_options == SubSeq(opts, cut + 1, Len(opts))
  IN  [stmt EXCEPT !.options =
         main_body \o SelectSeq(table_options,
                                LAMBDA o : ~IsAutoIncrement(o))]

\* The statement sync_structures executes for a table missing in the source
ModifiedCreateStmt(db, t) ==
  StripAutoIncrement(StripForeignKeys(ShowCreateTable(db, t)))

NoStmt == [table |-> "", cols |-> <<>>, fk_tails |-> {}, residue |-> {},
           options |-> <<>>]

\* MySQL rejects a CREATE TABLE whose text holds leftover words, and one
\* whose table exists
CreateFails(db, stmt) == stmt.residue # {} \/ stmt.table \in db.tables

\* The source after a successful CREATE TABLE
ExecCreate(db, stmt) ==
  [db EXCEPT !.tables = @ \cup {stmt.table},
             !.def[stmt.table] = [cols |-> stmt.cols, opts |-> stmt.options]]

\* The source after DROP TABLE IF EXISTS t: its foreign keys go with it
ExecDrop(db, t) ==
  [db EXCEPT !.tables = @ \ {t},
             !.def[t] = NoTable,
             !.fks = {f \in @ : f.table # t}]

(* ------------------------------------------------------------------ *)
(* Table definitions the schemas are drawn from                        *)
(* ------------------------------------------------------------------ *)

TY_varchar9 == <<"v","a","r","c","h","a","r","(","9",")">>

\* SHOW COLUMNS of the table handle_dosen_tables creates
DWP_COLS ==
  <<Col("id", TY_int, "NO", "PRI", None, "auto_increment"),
    Col("nidn", TY_varchar, "YES", "MUL", None, ""),
    Col("prodi_id", TY_int, "YES", "MUL", None, ""),
    Col("tahun_ajar", TY_varchar9, "YES", "", None, ""),
    Col("created_at", TY_datetime, "YES", "", DF_CT, "DEFAULT_GENERATED"),
    Col("updated_at", TY_datetime, "YES", "", DF_CT,
        "DEFAULT_GENERATED on update CURRENT_TIMESTAMP")>>

DWP_OPTS == <<OPT_ENGINE, OPT_CHARSET>>

DWP_FK1 ==
  Fk("dosen_wali_prodi", "nidn", "dosen", "nidn",
     <<"dosen_wali_prodi", "ibfk_1">>, "RESTRICT", "RESTRICT", TRUE)

DWP_FK2 ==
  Fk("dosen_wali_prodi", "prodi_id", "prodi", "id_prodi",
     <<"dosen_wali_prodi", "ibfk_2">>, "RESTRICT", "RESTRICT", TRUE)

BaseCols(t) ==
  CASE t = "dosen_wali_prodi" -> DWP_COLS
    [] t = "dosen" ->
         <<Col("nidn", TY_varchar, "NO", "PRI", None, ""),
           Col("nama", TY_varchar, "YES", "", None, "")>>
    [] OTHER ->
         <<Col("id", TY_int, "NO", "PRI", None, "auto_increment"),
           Col("ref_id", TY_int, "YES", "MUL", None, "")>>

\* The base columns and one more
ExtCols(t) ==
  BaseCols(t)
  \o <<Col(IF t = "dosen_wali_prodi" THEN "keterangan" ELSE "created_at",
           TY_datetime, "NO", "", DF_CT, "")>>

VariantCols(t, v) == IF v = "ext" THEN ExtCols(t) ELSE BaseCols(t)

(* ------------------------------------------------------------------ *)
(* State                                                               *)
(* ------------------------------------------------------------------ *)

VARIABLES
  src,                  \* the source schema as the open transaction sees it
  srcCommitted,         \* the source schema as last committed
  srcStart,             \* the source schema when the run began
  tgt,                  \* the target schema
  fkChecks,             \* the source session's FOREIGN_KEY_CHECKS
  srcLog,               \* statements executed on the source connection
  tgtLog,               \* statements executed on the target connection
  faults,               \* errors raised by the environment so far
  source_conn,          \* self.source_conn: "None", "open" or "closed"
  target_conn,          \* self.target_conn
  pc,                   \* the statement sync_structures is at
  result,               \* what sync_structures returned: "none", "True", "False"
  handler_result,       \* what handle_dosen_tables returned
  source_tables,        \* locals of compare_structures
  target_tables,
  missing_in_source,
  missing_in_target,
  different_structures,
  todo,                 \* tables of missing_in_source not yet iterated
  create_stmt,          \* create_stmt of the current table
  fk_todo,              \* rows of the foreign-key cursor not yet iterated
  fk_stmt,              \* fk_stmt of the current foreign key
  constraints,          \* constraint names handle_dosen_tables has yet to drop
  source_cols,          \* inputs and outputs of the pure functions
  target_cols,
  alter_statements,
  cpc,
  stage,                \* where main() is: "start", "compared" or "exit"
  prev_result,          \* what the previous sync_structures call returned
  orphans,              \* connections still open that no attribute refers to
  closes                \* calls of close_connections so far

dbVars == <<src, srcCommitted, srcStart, tgt, fkChecks>>

connVars == <<source_conn, target_conn>>

diffVars ==
  <<source_tables, target_tables, missing_in_source, missing_in_target,
    different_structures>>

loopVars == <<todo, create_stmt, fk_todo, fk_stmt, constraints>>

colsVars == <<source_cols, target_cols, alter_statements, cpc>>

runVars == <<stage, prev_result, orphans, closes>>

vars ==
  <<dbVars, srcLog, tgtLog, faults, connVars, pc, result, handler_result,
    diffVars, loopVars, colsVars, runVars>>

(* ------------------------------------------------------------------ *)
(* Initial schemas                                                     *)
(* ------------------------------------------------------------------ *)

OptVariants ==
  {<<OPT_ENGINE, OPT_AUTO_INCREMENT, OPT_CHARSET>>,
   <<OPT_ENGINE, OPT_AUTO_INCREMENT, OPT_CHARSET, OPT_COMMENT_PAREN>>}

DefaultOpts == <<OPT_ENGINE, OPT_AUTO_INCREMENT, OPT_CHARSET>>

\* The foreign keys a generic table may carry in the target: none, or one
\* from orders.ref_id to customers.id with its rules, which
\* REFERENTIAL_CONSTRAINTS may hold no row for
FkVariants(t) ==
  IF t = "orders"
  THEN {"none", "restrict", "cascade", "setnull", "update", "norow"}
  ELSE {"none"}

FkOfVariant(t, v) ==
  LET nm == <<t, "ibfk_1">>
      rt == "customers"
  IN  CASE v = "restrict" ->
             {Fk(t, "ref_id", rt, "id", nm, "RESTRICT", "RESTRICT", TRUE)}
        [] v = "cascade" ->
             {Fk(t, "ref_id", rt, "id", nm, "CASCADE", "RESTRICT", TRUE)}
        [] v = "setnull" ->
             {Fk(t, "ref_id", rt, "id", nm, "SET NULL", "CASCADE", TRUE)}
        [] v = "update" ->
             {Fk(t, "ref_id", rt, "id", nm, "RESTRICT", "CASCADE", TRUE)}
        [] v = "norow" ->
             {Fk(t, "ref_id", rt, "id", nm, "CASCADE", "CASCADE", FALSE)}
        [] OTHER -> {}

Status(sv, tv, fk, opt, idx, sfk) ==
  [sv |-> sv, tv |-> tv, fk |-> fk, opt |-> opt, idx |-> idx, sfk |-> sfk]

\* How one table stands in the two schemas: absent, with its base columns, or
\* with one more column, on each side
TableStatuses(t) ==
  IF t = "dosen" THEN
    {Status("base", "base", "none", DefaultOpts, TRUE, FALSE),
     Status("base", "ext", "none", DefaultOpts, FALSE, FALSE)}
    \cup {Status("absent", "base", "none", DefaultOpts, FALSE, FALSE)}
  ELSE IF t = "dosen_wali_prodi" THEN
    {Status("base", tv, "none", DWP_OPTS, FALSE, TRUE) :
       tv \in {"base", "ext"}}
    \cup {Status("absent", "base", "none", DWP_OPTS, FALSE, FALSE)}
  ELSE
    {Status(p[1], p[2], "none", DefaultOpts, FALSE, FALSE) :
       p \in {<<"absent", "absent">>, <<"base", "absent">>, <<"base", "base">>,
              <<"base", "ext">>, <<"ext", "base">>}}
    \cup {Status("absent", "base", fk, DefaultOpts, FALSE, FALSE) :
            fk \in FkVariants(t)}
    \cup {Status("absent", "base", "none", opt, FALSE, FALSE) :
            opt \in OptVariants}

RECURSIVE AssignmentsOver(_)
AssignmentsOver(T) ==
  IF T = {} THEN {<<>>}
  ELSE LET t == CHOOSE x \in T : TRUE
       IN  {(t :> s) @@ f : s \in TableStatuses(t), f \in AssignmentsOver(T \ {t})}

\* Every way to give each table one of its statuses
StatusAssignments == AssignmentsOver(AllTables)

SourceOf(st) ==
  Schema({t \in AllTables : st[t].sv # "absent"},
         [t \in AllTables |->
            IF st[t].sv = "absent" THEN NoTable
            ELSE [cols |-> VariantCols(t, st[t].sv),
                  opts |-> IF t = "dosen_wali_prodi" THEN DWP_OPTS
                           ELSE DefaultOpts]],
         IF st["dosen_wali_prodi"].sfk THEN {DWP_FK1, DWP_FK2} ELSE {},
         st["dosen"].idx)

TargetOf(st) ==
  Schema({t \in AllTables : st[t].tv # "absent"},
         [t \in AllTables |->
            IF st[t].tv = "absent" THEN NoTable
            ELSE [cols |-> VariantCols(t, st[t].tv), opts |-> st[t].opt]],
         UNION {FkOfVariant(t, st[t].fk) : t \in AllTables},
         TRUE)

EmptySchema == Schema({}, [t \in AllTables |-> NoTable], {}, FALSE)

NoFkStmt ==
  [table |-> "", name |-> <<>>, col |-> "", ref_table |-> "", ref_col |-> "",
   on_delete |-> <<>>, on_update |-> <<>>]

\* The comparator after __init__: no connection, nothing computed
InitLocals ==
  /\ srcLog = <<>> /\ tgtLog = <<>> /\ faults = 0
  /\ source_conn = "None" /\ target_conn = "None"
  /\ result = "none" /\ handler_result = "none"
  /\ source_tables = {} /\ target_tables = {}
  /\ missing_in_source = {} /\ missing_in_target = {}
  /\ todo = {} /\ create_stmt = NoStmt /\ fk_todo = {} /\ fk_stmt = NoFkStmt
  /\ constraints = {}
  /\ stage = "start" /\ prev_result = "none" /\ orphans = 0 /\ closes = 0

Init ==
  /\ \E st \in StatusAssignments :
       /\ src = SourceOf(st)
       /\ srcCommitted = SourceOf(st)
       /\ srcStart = SourceOf(st)
       /\ tgt = TargetOf(st)
  /\ fkChecks = 1
  /\ pc = "idle"
  /\ InitLocals
  /\ different_structures = <<>>
  /\ source_cols = <<>> /\ target_cols = <<>> /\ alter_statements = <<>>
  /\ cpc = "off"

(* ------------------------------------------------------------------ *)
(* Helpers of the actions                                              *)
(* ------------------------------------------------------------------ *)

RECURSIVE SetToSeq(_)
SetToSeq(S) ==
  IF S = {} THEN <<>>
  ELSE LET x == CHOOSE y \in S : TRUE IN <<x>> \o SetToSeq(S \ {x})

\* One cursor.execute / commit / rollback: the statement, the table and
\* column it names, the method that issued it and whether it succeeded
Entry(op, table, arg, by, ok) ==
  [op |-> op, table |-> table, arg |-> arg, by |-> by, ok |-> ok]

CanFault == faults < MaxFaults

\* except Error of sync_structures: rollback, return False
SyncExcept(entries) ==
  /\ src' = srcCommitted
  /\ srcLog' = srcLog \o entries \o <<Entry("ROLLBACK", "", "", "sync", TRUE)>>
  /\ result' = "False"
  /\ pc' = "done"
  /\ UNCHANGED faults

\* except Error of handle_dosen_tables: rollback, return False; the caller
\* returns False at once
HandlerExcept(entries) ==
  /\ src' = srcCommitted
  /\ srcLog' =
       srcLog \o entries \o <<Entry("ROLLBACK", "", "", "handler", TRUE)>>
  /\ handler_result' = "False"
  /\ result' = "False"
  /\ pc' = "done"
  /\ UNCHANGED faults

(* ------------------------------------------------------------------ *)
(* connect, get_tables, get_table_structure, compare_structures        *)
(* ------------------------------------------------------------------ *)

\* The introspection queries of one comparison that may fail
ReadPoints ==
  {<<"tables", "source", "">>, <<"tables", "target", "">>}
  \cup {<<"cols", side, t>> : side \in {"source", "target"},
                               t \in src.tables \cap tgt.tables}

RECURSIVE SubsetsUpTo(_, _)
SubsetsUpTo(S, k) ==
  IF k <= 0 THEN {{}}
  ELSE LET smaller == SubsetsUpTo(S, k - 1)
       IN  smaller \cup {A \cup {p} : A \in smaller, p \in S}

\* get_tables: the table names, or [] when the query failed
get_tables(db, side, failed) ==
  IF <<"tables", side, "">> \in failed THEN {} ELSE db.tables

get_table_structure_Unswallowed(db, side, t, failed) == db.def[t].cols

\* get_table_structure: the rows of SHOW COLUMNS, or [] when it failed
get_table_structure(db, side, t, failed) ==
  IF <<"cols", side, t>> \in failed THEN <<>> ELSE db.def[t].cols

\* The statements one comparison executes on a connection
CompareReads(side, common, failed, by) ==
  <<Entry("SHOW TABLES", "", "", by, <<"tables", side, "">> \notin failed)>>
  \o [i \in 1..Cardinality(common) |->
        Entry("SHOW COLUMNS", SetToSeq(common)[i], "", by,
              <<"cols", side, SetToSeq(common)[i]>> \notin failed)]

\* How many of the two connections the attributes refer to are open
OpenCount(conns) == Cardinality({i \in DOMAIN conns : conns[i] = "open"})

\* connect() succeeded: both attributes refer to new connections, the source
\* one a new session (checks on, nothing uncommitted in view); the
\* connections they referred to before stay as they were
Connected ==
  /\ source_conn' = "open" /\ target_conn' = "open"
  /\ orphans' = orphans + OpenCount(<<source_conn, target_conn>>)
  /\ src' = srcCommitted
  /\ fkChecks' = 1

\* connect() returned False: mysql.connector.connect raised for the source
\* (nothing assigned) or for the target (the source attribute assigned)
ConnectFailed(failing) ==
  IF failing = "source"
  THEN UNCHANGED <<source_conn, target_conn, orphans, src, fkChecks>>
  ELSE /\ source_conn' = "open"
       /\ orphans' = orphans + OpenCount(<<source_conn>>)
       /\ src' = srcCommitted
       /\ fkChecks' = 1
       /\ UNCHANGED target_conn

\* compare_structures after a successful connect: the two table listings, the
\* column listings of the common tables, the diff; `failed` are the
\* introspection queries that raised
CompareStructures(failed) ==
  LET S == get_tables(src, "source", failed)
      T == get_tables(tgt, "target", failed)
      common == CommonTables(S, T)
      source_of == [t \in common |->
                      get_table_structure(src, "source", t, failed)]
      target_of == [t \in common |->
                      get_table_structure(tgt, "target", t, failed)]
  IN  /\ \A p \in failed : p[1] = "cols" => p[3] \in common
      /\ faults' = faults + Cardinality(failed)
      /\ Connected
      /\ source_tables' = S /\ target_tables' = T
      /\ missing_in_source' = MissingInSource(S, T)
      /\ missing_in_target' = MissingInTarget(S, T)
      /\ different_structures' =
           DifferentStructures(common, source_of, target_of)
      /\ srcLog' = srcLog \o CompareReads("source", common, failed, "compare")
      /\ tgtLog' = tgtLog \o CompareReads("target", common, failed, "compare")

\* compare_structures when connect() returned False: return [], [], {}
CompareStructuresUnconnected(failing) ==
  /\ ConnectFailed(failing)
  /\ source_tables' = {} /\ target_tables' = {}
  /\ missing_in_source' = {} /\ missing_in_target' = {}
  /\ different_structures' = <<>>
  /\ UNCHANGED <<faults, srcLog, tgtLog>>

\* sync_structures up to its first return: compare_structures, then the
\* no-difference test
SyncCompare ==
  /\ pc = "idle"
  /\ \/ /\ \E failed \in SubsetsUpTo(ReadPoints, MaxFaults - faults) :
             CompareStructures(failed)
        /\ IF NoDifference(missing_in_source', different_structures')
           THEN result' = "True" /\ pc' = "done"
           ELSE result' = result /\ pc' = "fk_off"
     \/ /\ \E failing \in {"source", "target"} :
             CompareStructuresUnconnected(failing)
        /\ result' = "True" /\ pc' = "done"
  /\ UNCHANGED <<srcCommitted, srcStart, tgt, handler_result, loopVars,
                 colsVars, stage, prev_result, closes>>

DosenImplicated_MissingOnly ==
  \E table \in missing_in_source : table \in SpecialTables

\* The special-case test of sync_structures
DosenImplicated ==
  \/ \E table \in missing_in_source : table \in SpecialTables
  \/ \E table \in DOMAIN different_structures : table \in SpecialTables

SyncFkOff_ChecksKept ==
  /\ pc = "fk_off"
  /\ srcLog' = Append(srcLog,
                      Entry("SET FOREIGN_KEY_CHECKS=0", "", "", "sync", TRUE))
  /\ pc' = IF DosenImplicated THEN "h_list" ELSE "next_missing"
  /\ todo' = missing_in_source
  /\ UNCHANGED <<src, result, faults, fkChecks, srcCommitted, srcStart, tgt,
                 tgtLog, connVars, handler_result, diffVars, create_stmt,
                 fk_todo, fk_stmt, constraints, colsVars, runVars>>

\* cursor.execute("SET FOREIGN_KEY_CHECKS=0"), then the special-case test
SyncFkOff ==
  /\ pc = "fk_off"
  /\ \/ /\ fkChecks' = 0
        /\ srcLog' = Append(srcLog,
                            Entry("SET FOREIGN_KEY_CHECKS=0", "", "", "sync", TRUE))
        /\ pc' = IF DosenImplicated THEN "h_list" ELSE "next_missing"
        /\ todo' = missing_in_source
        /\ UNCHANGED <<src, result, faults>>
     \/ /\ SyncExcept(<<Entry("SET FOREIGN_KEY_CHECKS=0", "", "", "sync", FALSE)>>)
        /\ UNCHANGED <<fkChecks, todo>>
  /\ UNCHANGED <<srcCommitted, srcStart, tgt, tgtLog, connVars, handler_result,
                 diffVars, create_stmt, fk_todo, fk_stmt, constraints, colsVars,
                 runVars>>

(* ------------------------------------------------------------------ *)
(* handle_dosen_tables                                                 *)
(* ------------------------------------------------------------------ *)

DWP == "dosen_wali_prodi"

\* What no step of handle_dosen_tables touches
handlerFrame ==
  <<srcStart, tgt, tgtLog, connVars, diffVars, todo, create_stmt, fk_todo,
    fk_stmt, colsVars, runVars>>

H(op, table, arg, ok) == Entry(op, table, arg, "handler", ok)

\* A statement of the handler outside an inner try: it succeeds with the
\* given source and session flag, or fails into the handler's except
HandlerStatement(at, entry, newSrc, newFk, next) ==
  /\ pc = at
  /\ \/ /\ src' = newSrc
        /\ fkChecks' = newFk
        /\ srcLog' = Append(srcLog, entry)
        /\ pc' = next
        /\ UNCHANGED <<faults, result, handler_result>>
     \/ /\ HandlerExcept(<<[entry EXCEPT !.ok = FALSE]>>)
        /\ UNCHANGED fkChecks
  /\ UNCHANGED <<srcCommitted, constraints, handlerFrame>>

\* Step 1, the SELECT of the constraint names; its failure is logged and
\* the handler goes on to step 2
HandlerListConstraints ==
  /\ pc = "h_list"
  /\ \/ LET names == {f.name : f \in {g \in src.fks : g.table = DWP}}
        IN  /\ constraints' = names
            /\ srcLog' = Append(srcLog, H("SELECT CONSTRAINT_NAME", DWP, "", TRUE))
            /\ pc' = IF names = {} THEN "h_index_check" ELSE "h_drop_fk"
            /\ UNCHANGED faults
     \/ /\ CanFault
        /\ faults' = faults + 1
        /\ srcLog' = Append(srcLog, H("SELECT CONSTRAINT_NAME", DWP, "", FALSE))
        /\ pc' = "h_index_check"
        /\ UNCHANGED constraints
  /\ UNCHANGED <<src, srcCommitted, fkChecks, result, handler_result,
                 handlerFrame>>

\* Step 1, one DROP FOREIGN KEY of the loop; its failure ends the loop and
\* the handler goes on to step 2
HandlerDropConstraint ==
  /\ pc = "h_drop_fk"
  /\ \E constraint_name \in constraints :
       \/ /\ src' = [src EXCEPT !.fks =
                       {f \in @ : ~(f.table = DWP /\ f.name = constraint_name)}]
          /\ constraints' = constraints \ {constraint_name}
          /\ srcLog' = Append(srcLog,
                              H("DROP FOREIGN KEY", DWP, constraint_name[2], TRUE))
          /\ pc' = IF constraints' = {} THEN "h_index_check" ELSE "h_drop_fk"
          /\ UNCHANGED faults
       \/ /\ CanFault
          /\ faults' = faults + 1
          /\ srcLog' = Append(srcLog,
                              H("DROP FOREIGN KEY", DWP, constraint_name[2], FALSE))
          /\ constraints' = {}
          /\ pc' = "h_index_check"
          /\ UNCHANGED src
  /\ UNCHANGED <<srcCommitted, fkChecks, result, handler_result, handlerFrame>>

\* Step 2, the SELECT COUNT(1) on information_schema.STATISTICS
HandlerIndexCheck ==
  /\ pc = "h_index_check"
  /\ \/ /\ srcLog' = Append(srcLog, H("SELECT COUNT INDEX", "dosen", "", TRUE))
        /\ pc' = IF src.idx_dosen_nidn THEN "h_drop_table" ELSE "h_add_index"
        /\ UNCHANGED <<src, faults, result, handler_result>>
     \/ /\ HandlerExcept(<<H("SELECT COUNT INDEX", "dosen", "", FALSE)>>)
  /\ UNCHANGED <<srcCommitted, fkChecks, constraints, handlerFrame>>

HandlerAddIndex_CreatesDosen ==
  /\ pc = "h_add_index"
  /\ src' = [ExecCreate(src, [NoStmt EXCEPT !.table = "dosen",
                                            !.cols = BaseCols("dosen")])
               EXCEPT !.idx_dosen_nidn = TRUE]
  /\ srcLog' = Append(srcLog, H("ADD UNIQUE INDEX", "dosen", "nidn", TRUE))
  /\ pc' = "h_drop_table"
  /\ UNCHANGED <<faults, result, handler_result, srcCommitted, fkChecks,
                 constraints, handlerFrame>>

\* Step 2, ALTER TABLE dosen ADD UNIQUE INDEX: an error whose text holds
\* "Duplicate" is tolerated, any other is raised
HandlerAddIndex ==
  /\ pc = "h_add_index"
  /\ \/ /\ "dosen" \in src.tables
        /\ src' = [src EXCEPT !.idx_dosen_nidn = TRUE]
        /\ srcLog' = Append(srcLog, H("ADD UNIQUE INDEX", "dosen", "nidn", TRUE))
        /\ pc' = "h_drop_table"
        /\ UNCHANGED <<faults, result, handler_result>>
     \/ /\ "dosen" \in src.tables
        /\ CanFault
        /\ faults' = faults + 1
        /\ srcLog' = Append(srcLog, H("ADD UNIQUE INDEX", "dosen", "nidn", FALSE))
        /\ pc' = "h_drop_table"
        /\ UNCHANGED <<src, result, handler_result>>
     \/ /\ "dosen" \in src.tables
        /\ HandlerExcept(<<H("ADD UNIQUE INDEX", "dosen", "nidn", FALSE)>>)
     \/ /\ "dosen" \notin src.tables
        /\ HandlerExcept(<<H("ADD UNIQUE INDEX", "dosen", "nidn", FALSE)>>)
  /\ UNCHANGED <<srcCommitted, fkChecks, constraints, handlerFrame>>

\* Step 3
HandlerDropTable ==
  HandlerStatement("h_drop_table", H("DROP TABLE", DWP, "", TRUE),
                   ExecDrop(src, DWP), fkChecks, "h_create")

DwpCreateStmt ==
  [table |-> DWP, cols |-> DWP_COLS, fk_tails |-> {}, residue |-> {},
   options |-> DWP_OPTS]

HandlerCreateTable ==
  HandlerStatement("h_create", H("CREATE TABLE", DWP, "", TRUE),
                   ExecCreate(src, DwpCreateStmt), fkChecks, "h_fk_off")

\* Step 4
HandlerFkOff ==
  HandlerStatement("h_fk_off", H("SET FOREIGN_KEY_CHECKS=0", "", "", TRUE),
                   src, 0, "h_fk1")

HandlerAddFk1 ==
  HandlerStatement("h_fk1", H("ADD CONSTRAINT", DWP, "nidn", TRUE),
                   [src EXCEPT !.fks = @ \cup {DWP_FK1}], fkChecks, "h_fk2")

HandlerAddFk2_Skipped ==
  /\ pc = "h_fk2"
  /\ pc' = "h_fk_on"
  /\ UNCHANGED <<src, srcCommitted, fkChecks, srcLog, faults, result,
                 handler_result, constraints, handlerFrame>>

HandlerAddFk2 ==
  HandlerStatement("h_fk2", H("ADD CONSTRAINT", DWP, "prodi_id", TRUE),
                   [src EXCEPT !.fks = @ \cup {DWP_FK2}], fkChecks, "h_fk_on")

HandlerFkOn ==
  HandlerStatement("h_fk_on", H("SET FOREIGN_KEY_CHECKS=1", "", "", TRUE),
                   src, 1, "h_commit")

\* self.source_conn.commit(); return True; sync_structures goes on to the
\* missing tables
HandlerCommit ==
  /\ pc = "h_commit"
  /\ \/ /\ srcCommitted' = src
        /\ srcLog' = Append(srcLog, H("COMMIT", "", "", TRUE))
        /\ handler_result' = "True"
        /\ pc' = "next_missing"
        /\ UNCHANGED <<src, faults, result>>
     \/ /\ HandlerExcept(<<H("COMMIT", "", "", FALSE)>>)
        /\ UNCHANGED srcCommitted
  /\ UNCHANGED <<fkChecks, constraints, handlerFrame>>

(* ------------------------------------------------------------------ *)
(* sync_structures: the tables missing in the source                   *)
(* ------------------------------------------------------------------ *)

\* What no step of the loop touches
syncFrame ==
  <<srcStart, tgt, fkChecks, connVars, handler_result, diffVars, constraints,
    colsVars, runVars>>

Y(op, table, arg, ok) == Entry(op, table, arg, "sync", ok)

\* The next table of `for table in missing_in_source` (a list built from a
\* set: any order).  A special-cased table is passed over; for any other the
\* target's SHOW CREATE TABLE is fetched and rewritten.  The loop over, the
\* code goes on to re-enable the foreign-key checks.
SyncNextMissing ==
  /\ pc = "next_missing"
  /\ \/ /\ todo = {}
        /\ pc' = "fk_on"
        /\ UNCHANGED <<src, srcLog, tgtLog, faults, result, todo, create_stmt>>
     \/ \E table \in todo :
          /\ todo' = todo \ {table}
          /\ \/ /\ table \in SpecialTables
                /\ pc' = "next_missing"
                /\ UNCHANGED <<src, srcLog, tgtLog, faults, result, create_stmt>>
             \/ /\ table \notin SpecialTables
                /\ create_stmt' = ModifiedCreateStmt(tgt, table)
                /\ tgtLog' = Append(tgtLog, Y("SHOW CREATE TABLE", table, "", TRUE))
                /\ pc' = "create"
                /\ UNCHANGED <<src, srcLog, faults, result>>
             \/ /\ table \notin SpecialTables
                /\ tgtLog' = Append(tgtLog, Y("SHOW CREATE TABLE", table, "", FALSE))
                /\ SyncExcept(<<>>)
                /\ UNCHANGED create_stmt
  /\ UNCHANGED <<srcCommitted, fk_todo, fk_stmt, syncFrame>>

SyncCreateTable_OnTarget ==
  /\ pc = "create"
  /\ tgtLog' = Append(tgtLog, Y("CREATE TABLE", create_stmt.table, "", FALSE))
  /\ pc' = "list_fks"
  /\ UNCHANGED <<src, tgt, srcCommitted, srcStart, fkChecks, srcLog, faults, result,
                 connVars, handler_result, diffVars, loopVars, colsVars,
                 runVars>>

\* cursor.execute(create_stmt); an error is logged and raised again
SyncCreateTable ==
  /\ pc = "create"
  /\ \/ /\ ~CreateFails(src, create_stmt)
        /\ src' = ExecCreate(src, create_stmt)
        /\ srcLog' = Append(srcLog, Y("CREATE TABLE", create_stmt.table, "", TRUE))
        /\ pc' = "list_fks"
        /\ UNCHANGED <<faults, result>>
     \/ /\ ~CreateFails(src, create_stmt)
        /\ SyncExcept(<<Y("CREATE TABLE", create_stmt.table, "", FALSE)>>)
     \/ /\ CreateFails(src, create_stmt)
        /\ SyncExcept(<<Y("CREATE TABLE", create_stmt.table, "", FALSE)>>)
  /\ UNCHANGED <<srcCommitted, tgtLog, todo, create_stmt, fk_todo, fk_stmt,
                 syncFrame>>

\* The SELECT on the target's information_schema.KEY_COLUMN_USAGE
SyncListForeignKeys ==
  /\ pc = "list_fks"
  /\ \/ LET rows == {f \in tgt.fks : f.table = create_stmt.table}
        IN  /\ fk_todo' = rows
            /\ tgtLog' = Append(tgtLog,
                 Y("SELECT KEY_COLUMN_USAGE", create_stmt.table, "", TRUE))
            /\ pc' = IF rows = {} THEN "next_missing" ELSE "add_fk"
            /\ UNCHANGED <<src, srcLog, faults, result>>
     \/ /\ tgtLog' = Append(tgtLog,
             Y("SELECT KEY_COLUMN_USAGE", create_stmt.table, "", FALSE))
        /\ SyncExcept(<<>>)
        /\ UNCHANGED fk_todo
  /\ UNCHANGED <<srcCommitted, todo, create_stmt, fk_stmt, syncFrame>>

\* delete_rule, update_rule = target_cursor.fetchone() or ('RESTRICT', 'RESTRICT')
RulesOf(row) ==
  IF row.has_row THEN <<row.delete_rule, row.update_rule>>
  ELSE <<"RESTRICT", "RESTRICT">>

FkStmt_NoRules(table, row) ==
  [table |-> table, name |-> <<"fk", table, row.ref_table, row.col>>,
   col |-> row.col, ref_table |-> row.ref_table, ref_col |-> row.ref_col,
   on_delete |-> <<>>, on_update |-> <<>>]

\* fk_stmt: ALTER TABLE .. ADD CONSTRAINT `fk_<table>_<ref_table>_<col>`
\* FOREIGN KEY (col) REFERENCES ref_table(ref_col) and the ON DELETE and
\* ON UPDATE clauses appended to it
FkStmt(table, row) ==
  [table |-> table, name |-> <<"fk", table, row.ref_table, row.col>>,
   col |-> row.col, ref_table |-> row.ref_table, ref_col |-> row.ref_col,
   on_delete |-> IF RulesOf(row)[1] # "RESTRICT" THEN <<RulesOf(row)[1]>>
                 ELSE <<>>,
   on_update |-> IF RulesOf(row)[2] # "RESTRICT" THEN <<RulesOf(row)[2]>>
                 ELSE <<>>]

\* The foreign key the source holds after fk_stmt succeeded
FkCreated(stmt) ==
  Fk(stmt.table, stmt.col, stmt.ref_table, stmt.ref_col, stmt.name,
     IF stmt.on_delete = <<>> THEN "RESTRICT" ELSE stmt.on_delete[1],
     IF stmt.on_update = <<>> THEN "RESTRICT" ELSE stmt.on_update[1],
     TRUE)

\* With the checks enabled MySQL refuses a foreign key whose referenced
\* table does not exist
FkRefused(db, checks, stmt) == checks = 1 /\ stmt.ref_table \notin db.tables

AfterFk == IF fk_todo' = {} THEN "next_missing" ELSE "add_fk"

\* One row of the foreign-key loop: the rule lookup on the target, fk_stmt,
\* its execution on the source.  The inner except logs every error and acts
\* only on "Missing index".
SyncAddForeignKey ==
  /\ pc = "add_fk"
  /\ \E row \in fk_todo :
       LET stmt == FkStmt(create_stmt.table, row)
           lookup == Y("SELECT REFERENTIAL_CONSTRAINTS", row.table, row.col, TRUE)
           add == Y("ADD CONSTRAINT", stmt.table, stmt.col, TRUE)
       IN
       /\ fk_todo' = fk_todo \ {row}
       /\ \/ /\ ~FkRefused(src, fkChecks, stmt)
             /\ fk_stmt' = stmt
             /\ tgtLog' = Append(tgtLog, lookup)
             /\ src' = [src EXCEPT !.fks = @ \cup {FkCreated(stmt)}]
             /\ srcLog' = Append(srcLog, add)
             /\ pc' = AfterFk
             /\ UNCHANGED faults
          \/ /\ FkRefused(src, fkChecks, stmt)
             /\ fk_stmt' = stmt
             /\ tgtLog' = Append(tgtLog, lookup)
             /\ srcLog' = Append(srcLog, [add EXCEPT !.ok = FALSE])
             /\ pc' = AfterFk
             /\ UNCHANGED <<src, faults>>
          \/ \* the execution fails for a reason other than a missing index
             /\ CanFault
             /\ faults' = faults + 1
             /\ fk_stmt' = stmt
             /\ tgtLog' = Append(tgtLog, lookup)
             /\ srcLog' = Append(srcLog, [add EXCEPT !.ok = FALSE])
             /\ pc' = AfterFk
             /\ UNCHANGED src
          \/ \* the execution fails with "Missing index"
             /\ CanFault
             /\ faults' = faults + 1
             /\ fk_stmt' = stmt
             /\ tgtLog' = Append(tgtLog, lookup)
             /\ srcLog' = Append(srcLog, [add EXCEPT !.ok = FALSE])
             /\ pc' = "create_index"
             /\ UNCHANGED src
          \/ \* the rule lookup on the target fails: fk_stmt is not rebuilt
             /\ CanFault
             /\ faults' = faults + 1
             /\ tgtLog' = Append(tgtLog, [lookup EXCEPT !.ok = FALSE])
             /\ pc' = AfterFk
             /\ UNCHANGED <<src, srcLog, fk_stmt>>
  /\ UNCHANGED <<srcCommitted, result, todo, create_stmt, syncFrame>>

\* cursor.execute(f"ALTER TABLE {table} ADD INDEX (`{col}`)") in the except
SyncCreateMissingIndex ==
  /\ pc = "create_index"
  /\ \/ /\ srcLog' = Append(srcLog, Y("ADD INDEX", fk_stmt.table, fk_stmt.col, TRUE))
        /\ pc' = "retry_fk"
        /\ UNCHANGED <<src, faults, result>>
     \/ /\ SyncExcept(<<Y("ADD INDEX", fk_stmt.table, fk_stmt.col, FALSE)>>)
  /\ UNCHANGED <<srcCommitted, tgtLog, todo, create_stmt, fk_todo, fk_stmt,
                 syncFrame>>

SyncRetryForeignKey_Swallowed ==
  /\ pc = "retry_fk"
  /\ \/ /\ src' = [src EXCEPT !.fks = @ \cup {FkCreated(fk_stmt)}]
        /\ srcLog' = Append(srcLog,
                            Y("ADD CONSTRAINT", fk_stmt.table, fk_stmt.col, TRUE))
     \/ /\ srcLog' = Append(srcLog,
                            Y("ADD CONSTRAINT", fk_stmt.table, fk_stmt.col, FALSE))
        /\ UNCHANGED src
  /\ pc' = IF fk_todo = {} THEN "next_missing" ELSE "add_fk"
  /\ UNCHANGED <<faults, result, srcCommitted, tgtLog, todo, create_stmt,
                 fk_todo, fk_stmt, syncFrame>>

\* cursor.execute(fk_stmt) in the except (the first attempt was not refused
\* for its referenced table, and nothing changed since): an error here leaves
\* the loop for the outer except
SyncRetryForeignKey ==
  /\ pc = "retry_fk"
  /\ \/ /\ src' = [src EXCEPT !.fks = @ \cup {FkCreated(fk_stmt)}]
        /\ srcLog' = Append(srcLog,
                            Y("ADD CONSTRAINT", fk_stmt.table, fk_stmt.col, TRUE))
        /\ pc' = IF fk_todo = {} THEN "next_missing" ELSE "add_fk"
        /\ UNCHANGED <<faults, result>>
     \/ /\ SyncExcept(<<Y("ADD CONSTRAINT", fk_stmt.table, fk_stmt.col, FALSE)>>)
  /\ UNCHANGED <<srcCommitted, tgtLog, todo, create_stmt, fk_todo, fk_stmt,
                 syncFrame>>

(* ------------------------------------------------------------------ *)
(* sync_structures: the end of the try block                           *)
(* ------------------------------------------------------------------ *)

\* cursor.execute("SET FOREIGN_KEY_CHECKS=1").  Nothing stands between the
\* loop over the missing tables and this statement.
SyncFkOn ==
  /\ pc = "fk_on"
  /\ \/ /\ fkChecks' = 1
        /\ srcLog' = Append(srcLog, Y("SET FOREIGN_KEY_CHECKS=1", "", "", TRUE))
        /\ pc' = "commit"
        /\ UNCHANGED <<src, faults, result>>
     \/ /\ SyncExcept(<<Y("SET FOREIGN_KEY_CHECKS=1", "", "", FALSE)>>)
        /\ UNCHANGED fkChecks
  /\ UNCHANGED <<srcCommitted, srcStart, tgt, tgtLog, connVars, handler_result,
                 diffVars, loopVars, colsVars, runVars>>

\* self.source_conn.commit(); return True
SyncCommit ==
  /\ pc = "commit"
  /\ \/ /\ srcCommitted' = src
        /\ srcLog' = Append(srcLog, Y("COMMIT", "", "", TRUE))
        /\ result' = "True"
        /\ pc' = "done"
        /\ UNCHANGED <<src, faults>>
     \/ /\ SyncExcept(<<Y("COMMIT", "", "", FALSE)>>)
        /\ UNCHANGED srcCommitted
  /\ UNCHANGED <<srcStart, tgt, fkChecks, tgtLog, connVars, handler_result,
                 diffVars, loopVars, colsVars, runVars>>

Next ==
  \/ SyncCompare
  \/ SyncFkOff
  \/ HandlerListConstraints
  \/ HandlerDropConstraint
  \/ HandlerIndexCheck
  \/ HandlerAddIndex
  \/ HandlerDropTable
  \/ HandlerCreateTable
  \/ HandlerFkOff
  \/ HandlerAddFk1
  \/ HandlerAddFk2
  \/ HandlerFkOn
  \/ HandlerCommit
  \/ SyncNextMissing
  \/ SyncCreateTable
  \/ SyncListForeignKeys
  \/ SyncAddForeignKey
  \/ SyncCreateMissingIndex
  \/ SyncRetryForeignKey
  \/ SyncFkOn
  \/ SyncCommit

Spec == Init /\ [][Next]_vars

(* ------------------------------------------------------------------ *)
(* main, close_connections and a second call of sync_structures        *)
(* ------------------------------------------------------------------ *)

\* main(): comparator.compare_structures() on a new comparator; the three
\* lists are logged
MainCompare ==
  /\ stage = "start" /\ pc = "idle"
  /\ \/ \E failed \in SubsetsUpTo(ReadPoints, MaxFaults - faults) :
          CompareStructures(failed)
     \/ \E failing \in {"source", "target"} :
          CompareStructuresUnconnected(failing)
  /\ stage' = "compared"
  /\ UNCHANGED <<srcCommitted, srcStart, tgt, pc, result, handler_result,
                 loopVars, colsVars, prev_result, closes>>

\* main() returns: the answer to the prompt was not 'y', or sync_structures
\* has returned and its outcome is logged
MainExit ==
  /\ stage = "compared" /\ pc \in {"idle", "done"}
  /\ stage' = "exit"
  /\ UNCHANGED <<dbVars, srcLog, tgtLog, faults, connVars, pc, result,
                 handler_result, diffVars, loopVars, colsVars, prev_result,
                 orphans, closes>>

close_Unguarded(conn) == IF conn = "None" THEN "raised" ELSE "closed"

\* if conn and conn.is_connected(): conn.close()
close(conn) == IF conn = "open" THEN "closed" ELSE conn

\* close_connections(), called between two calls of the other methods
CloseConnections ==
  /\ pc \in {"idle", "done"} /\ closes < MaxCloses
  /\ source_conn' = close(source_conn)
  /\ target_conn' = close(target_conn)
  /\ closes' = closes + 1
  /\ UNCHANGED <<dbVars, srcLog, tgtLog, faults, pc, result, handler_result,
                 diffVars, loopVars, colsVars, stage, prev_result, orphans>>

\* A run of main(): the comparison, then sync_structures if the answer to
\* the prompt is 'y'
NextMain ==
  \/ MainCompare
  \/ MainExit
  \/ (stage = "compared" /\ Next)

SpecMain == Init /\ [][NextMain]_vars

\* The methods of one comparator called by a program that calls
\* close_connections last
NextClose ==
  \/ CloseConnections
  \/ (closes = 0 /\ Next)

SpecClose == Init /\ [][NextClose]_vars

\* sync_structures() is called once more on the same comparator after it
\* connected and returned True, nothing else having touched the two
\* databases; the statement logs and srcStart describe the call that begins
SyncAgain ==
  /\ pc = "done" /\ result = "True" /\ prev_result = "none"
  /\ source_conn = "open" /\ target_conn = "open"
  /\ prev_result' = result
  /\ pc' = "idle"
  /\ result' = "none" /\ handler_result' = "none"
  /\ srcLog' = <<>> /\ tgtLog' = <<>>
  /\ srcStart' = srcCommitted
  /\ todo' = {} /\ create_stmt' = NoStmt /\ fk_todo' = {}
  /\ fk_stmt' = NoFkStmt /\ constraints' = {}
  /\ source_tables' = {} /\ target_tables' = {}
  /\ missing_in_source' = {} /\ missing_in_target' = {}
  /\ different_structures' = <<>>
  /\ UNCHANGED <<src, srcCommitted, tgt, fkChecks, faults, connVars,
                 colsVars, stage, orphans, closes>>

NextTwice == Next \/ SyncAgain

SpecTwice == Init /\ [][NextTwice]_vars

\* compare_structures() called on its own on a new comparator, as main()
\* calls it, with up to MaxReadFaults of its introspection queries failing
CompareOnly ==
  /\ stage = "start" /\ pc = "idle"
  /\ \/ \E failed \in SubsetsUpTo(ReadPoints, MaxReadFaults) :
          CompareStructures(failed)
     \/ \E failing \in {"source", "target"} :
          CompareStructuresUnconnected(failing)
  /\ stage' = "compared"
  /\ UNCHANGED <<srcCommitted, srcStart, tgt, pc, result, handler_result,
                 loopVars, colsVars, prev_result, closes>>

SpecCompare == Init /\ [][CompareOnly]_vars

(* ------------------------------------------------------------------ *)
(* The pure functions on drawn column lists                            *)
(* ------------------------------------------------------------------ *)

ColumnLists(S) == {cols \in SeqsUpTo(S, MaxCols) : DistinctFields(cols)}

InitCols ==
  /\ source_cols \in ColumnLists(SrcColumns)
  /\ target_cols \in ColumnLists(TgtColumns)
  /\ alter_statements = <<>>
  /\ different_structures = <<>>
  /\ cpc = "input"
  /\ src = EmptySchema /\ srcCommitted = EmptySchema /\ srcStart = EmptySchema
  /\ tgt = EmptySchema
  /\ fkChecks = 1
  /\ pc = "off"
  /\ InitLocals

\* generate_alter_statements("t", source_cols, target_cols)
GenerateAlter ==
  /\ cpc = "input"
  /\ alter_statements' = generate_alter_statements("t", source_cols, target_cols)
  /\ cpc' = "generated"
  /\ UNCHANGED <<dbVars, srcLog, tgtLog, faults, connVars, pc, result,
                 handler_result, diffVars, loopVars, source_cols, target_cols,
                 runVars>>

\* The body of compare_structures' loop for a common table "t" whose two
\* column lists are source_cols and target_cols
CompareTable ==
  /\ cpc = "input"
  /\ different_structures' =
       DifferentStructures({"t"}, [t \in {"t"} |-> source_cols],
                           [t \in {"t"} |-> target_cols])
  /\ cpc' = "compared"
  /\ UNCHANGED <<dbVars, srcLog, tgtLog, faults, connVars, pc, result,
                 handler_result, source_tables, target_tables,
                 missing_in_source, missing_in_target, loopVars, source_cols,
                 target_cols, alter_statements, runVars>>

NextCols == GenerateAlter \/ CompareTable

SpecCols == InitCols /\ [][NextCols]_vars

(* ------------------------------------------------------------------ *)
(* Properties                                                          *)
(* ------------------------------------------------------------------ *)

Compared == pc \notin {"idle", "off"}

Returned == pc = "done"

ColumnFields == {"Field", "Type", "Null", "Key", "Default", "Extra"}

\* C1: compare_structures returns missing_in_source = T - S and
\* missing_in_target = S - T for the table sets S and T that get_tables
\* returned, both disjoint from the common set S \cap T, and only common
\* tables have their column structures compared.
C1_TableDiff ==
  Compared =>
    LET S == source_tables
        T == target_tables
        common == {t \in AllTables : t \in S /\ t \in T}
    IN  /\ missing_in_source = {t \in AllTables : t \in T /\ t \notin S}
        /\ missing_in_target = {t \in AllTables : t \in S /\ t \notin T}
        /\ missing_in_source \cap common = {}
        /\ missing_in_target \cap common = {}
        /\ DOMAIN different_structures \subseteq common

\* A comparison with tables on each side only and tables on both
C1_Witness ==
  /\ Compared
  /\ missing_in_source # {}
  /\ missing_in_target # {}
  /\ source_tables \cap target_tables # {}

\* C2: a common table is in different_structures if and only if its two
\* ordered column lists are not list-equal (they differ in length, or in some
\* field of the column at some position), and then both full lists are
\* attached to it.
C2_DifferentIffUnequal ==
  cpc = "compared" =>
    LET listed == "t" \in DOMAIN different_structures
        unequal ==
          \/ Len(source_cols) # Len(target_cols)
          \/ \E i \in 1..Len(source_cols) : \E f \in ColumnFields :
               source_cols[i][f] # target_cols[i][f]
    IN  /\ listed <=> unequal
        /\ listed => /\ different_structures["t"].source = source_cols
                     /\ different_structures["t"].target = target_cols

\* Two lists of the same columns in a different order are reported
C2_Witness ==
  /\ cpc = "compared"
  /\ "t" \in DOMAIN different_structures
  /\ Len(source_cols) = 2
  /\ Range(source_cols) = Range(target_cols)

\* The positions of target_cols whose name the source lacks
AddedPositions ==
  {i \in DOMAIN target_cols :
     \A j \in DOMAIN source_cols : source_cols[j].Field # target_cols[i].Field}

\* The k-th of them, in target order
KthAdded(k) ==
  CHOOSE i \in AddedPositions :
    Cardinality({j \in AddedPositions : j < i}) = k - 1

\* C3: generate_alter_statements returns exactly one ADD COLUMN statement per
\* target column whose name the source lacks, in target order, and none for
\* a column whose name exists in the source.
C3_AdditiveOnly ==
  cpc = "generated" =>
    /\ Len(alter_statements) = Cardinality(AddedPositions)
    /\ \A k \in DOMAIN alter_statements :
         /\ alter_statements[k].op = "ADD COLUMN"
         /\ alter_statements[k].table = "t"
         /\ alter_statements[k].Field = target_cols[KthAdded(k)].Field
         /\ alter_statements[k].Type = target_cols[KthAdded(k)].Type
         /\ \A j \in DOMAIN source_cols :
              source_cols[j].Field # alter_statements[k].Field

\* One column is added while another changed its type, nullability, key or
\* default, and a source column is absent from the target
C3_Witness ==
  /\ cpc = "generated"
  /\ Len(alter_statements) = 1
  /\ \E i \in DOMAIN source_cols : \E j \in DOMAIN target_cols :
       /\ source_cols[i].Field = target_cols[j].Field
       /\ source_cols[i] # target_cols[j]
  /\ \E i \in DOMAIN source_cols :
       \A j \in DOMAIN target_cols : source_cols[i].Field # target_cols[j].Field

\* The type categories and defaults of the drawn columns
TimestampTypes == {TY_datetime, TY_Timestamp}

CharacterTypes == {TY_varchar, TY_TEXT}

CurrentTimestampDefaults == {DF_CT, DF_ct}

ExpectedSuffix(col) ==
  (IF col.Null = "NO" THEN STR_NOT_NULL ELSE <<>>)
  \o (IF col.Default = None THEN <<>>
      ELSE IF col.Type \in TimestampTypes
              /\ col.Default \in CurrentTimestampDefaults
           THEN STR_DEFAULT \o STR_CURRENT_TIMESTAMP
      ELSE IF col.Type \in CharacterTypes
           THEN STR_DEFAULT \o <<"'">> \o col.Default[1] \o <<"'">>
      ELSE STR_DEFAULT \o col.Default[1])

\* C4: each ADD COLUMN statement carries NOT NULL exactly when the target
\* column is non-nullable and a DEFAULT clause exactly when its default is
\* not None: DEFAULT CURRENT_TIMESTAMP for a timestamp or datetime type whose
\* default is CURRENT_TIMESTAMP in any case, the default in quotes for a
\* character or text type, the default as it is for every other type.
C4_Rendering ==
  cpc = "generated" =>
    \A k \in DOMAIN alter_statements :
      alter_statements[k].suffix = ExpectedSuffix(target_cols[KthAdded(k)])

\* A non-nullable Timestamp column with default current_timestamp is added
C4_Witness ==
  /\ cpc = "generated"
  /\ \E k \in DOMAIN alter_statements :
       /\ target_cols[KthAdded(k)].Type = TY_Timestamp
       /\ target_cols[KthAdded(k)].Default = DF_ct
       /\ alter_statements[k].suffix =
            STR_NOT_NULL \o STR_DEFAULT \o STR_CURRENT_TIMESTAMP

ReadOps == {"SHOW TABLES", "SHOW COLUMNS"}

\* C5: when the diff has no table missing in the source and no structurally
\* different table, sync_structures returns True at once and executes
\* nothing but the comparison's own queries on the source connection: no
\* SET FOREIGN_KEY_CHECKS, no DDL, no commit, no rollback.
C5_NoDiffNoOp ==
  (Returned /\ missing_in_source = {} /\ DOMAIN different_structures = {}) =>
    /\ result = "True"
    /\ \A i \in DOMAIN srcLog : srcLog[i].op \in ReadOps
    /\ src = srcStart /\ srcCommitted = srcStart
    /\ fkChecks = 1

\* A run over connected databases whose only difference is a table that the
\* source alone has
C5_Witness ==
  /\ Returned
  /\ source_conn = "open" /\ target_conn = "open"
  /\ missing_in_source = {} /\ DOMAIN different_structures = {}
  /\ missing_in_target # {}
  /\ source_tables \cap target_tables # {}

\* The statements of the generic table handling of sync_structures
GenericOps == {"CREATE TABLE", "ADD CONSTRAINT", "ADD INDEX", "ADD COLUMN"}

IsGeneric(e) == e.by = "sync" /\ e.op \in GenericOps

\* The final commit of sync_structures, if the log holds it
FinalCommits ==
  {i \in DOMAIN srcLog :
     srcLog[i].op = "COMMIT" /\ srcLog[i].by = "sync" /\ srcLog[i].ok}

\* C6: in a sync that commits, for every table of different_structures other
\* than dosen and dosen_wali_prodi, each ADD COLUMN statement that
\* generate_alter_statements produces for it was executed on the source
\* before the final commit.
C6_AltersExecuted ==
  (Returned /\ result = "True") =>
    \A t \in DOMAIN different_structures \ SpecialTables :
      LET stmts == generate_alter_statements(t, different_structures[t].source,
                                             different_structures[t].target)
      IN  \A k \in DOMAIN stmts :
            \E i \in DOMAIN srcLog :
              /\ srcLog[i].op = "ADD COLUMN"
              /\ srcLog[i].table = t
              /\ srcLog[i].arg = stmts[k].Field
              /\ \E c \in FinalCommits : i < c

\* C7: after a sync that returned True, every table that was missing in the
\* source, other than dosen and dosen_wali_prodi, exists in the source with
\* the target's columns and without the AUTO_INCREMENT=<n> option, and
\* carries every foreign key the target defines for it, on the same column
\* and to the same referenced table and column.
C7_MissingTablesCreated ==
  (Returned /\ result = "True") =>
    \A t \in missing_in_source \ SpecialTables :
      /\ t \in srcCommitted.tables
      /\ srcCommitted.def[t].cols = tgt.def[t].cols
      /\ \A i \in DOMAIN srcCommitted.def[t].opts :
           srcCommitted.def[t].opts[i] # OPT_AUTO_INCREMENT
      /\ \A f \in tgt.fks :
           f.table = t =>
             \E g \in srcCommitted.fks :
               /\ g.table = t /\ g.col = f.col
               /\ g.ref_table = f.ref_table /\ g.ref_col = f.ref_col

\* C8: when dosen or dosen_wali_prodi is in missing_in_source or in
\* different_structures, every generic CREATE TABLE, ADD CONSTRAINT, ADD INDEX
\* or ALTER statement of the sync comes after the whole of a successful
\* handle_dosen_tables; and when the handler returned False the sync returned
\* False and executed no generic statement.
C8_HandlerFirst ==
  (Compared /\
   (missing_in_source \cup DOMAIN different_structures) \cap SpecialTables # {})
  =>
    /\ \A i \in DOMAIN srcLog :
         IsGeneric(srcLog[i]) =>
           /\ handler_result = "True"
           /\ \E j \in 1..(i - 1) : srcLog[j].by = "handler"
           /\ \A j \in DOMAIN srcLog : srcLog[j].by = "handler" => j < i
    /\ handler_result = "False" =>
         /\ Returned /\ result = "False"
         /\ \A i \in DOMAIN srcLog : ~IsGeneric(srcLog[i])

\* The handler ran because a special-cased table only differs, and a generic
\* table was then created and given its foreign key
C8_Witness ==
  /\ Returned
  /\ missing_in_source \cap SpecialTables = {}
  /\ DOMAIN different_structures \cap SpecialTables # {}
  /\ handler_result = "True"
  /\ \E i \in DOMAIN srcLog :
       IsGeneric(srcLog[i]) /\ srcLog[i].op = "ADD CONSTRAINT"

\* C9: a sync that returns False leaves nothing of what it wrote on the
\* source: the committed source schema is the one the run began with.
C9_AllOrNothing ==
  (Returned /\ result = "False") =>
    srcCommitted = srcStart /\ src = srcStart

\* C10: a generic DDL statement of sync_structures that failed, other than a
\* foreign-key ADD CONSTRAINT that failed for a missing index (the one the
\* code follows with ADD INDEX), makes the sync return False.
C10_DdlFailureFatal ==
  Returned =>
    \A i \in DOMAIN srcLog :
      (/\ IsGeneric(srcLog[i])
       /\ ~srcLog[i].ok
       /\ ~(/\ srcLog[i].op = "ADD CONSTRAINT"
            /\ i < Len(srcLog)
            /\ srcLog[i + 1].op = "ADD INDEX"))
      => result = "False"

\* A generic statement of sync_structures on one table and column
IsStmt(e, op, table, col) ==
  e.by = "sync" /\ e.op = op /\ e.table = table /\ e.arg = col

\* C11: an ADD CONSTRAINT that failed for a missing index is followed by ADD
\* INDEX on the same column and then by the same ADD CONSTRAINT once more,
\* and by nothing else for that foreign key; when the ADD INDEX or the second
\* ADD CONSTRAINT fails, the next thing on the source is the rollback and the
\* sync returns False.
C11_MissingIndexRetry ==
  /\ pc = "create_index" =>
       /\ srcLog # <<>>
       /\ IsStmt(srcLog[Len(srcLog)], "ADD CONSTRAINT", fk_stmt.table, fk_stmt.col)
       /\ ~srcLog[Len(srcLog)].ok
  /\ \A i \in DOMAIN srcLog :
       (srcLog[i].by = "sync" /\ srcLog[i].op = "ADD INDEX") =>
         LET t == srcLog[i].table
             c == srcLog[i].arg
             n == Len(srcLog)
         IN  /\ i > 1
             /\ IsStmt(srcLog[i - 1], "ADD CONSTRAINT", t, c)
             /\ ~srcLog[i - 1].ok
             /\ Cardinality({j \in DOMAIN srcLog :
                               IsStmt(srcLog[j], "ADD CONSTRAINT", t, c)}) <= 2
             /\ Cardinality({j \in DOMAIN srcLog :
                               IsStmt(srcLog[j], "ADD INDEX", t, c)}) = 1
             /\ IF srcLog[i].ok
                THEN IF i = n THEN pc = "retry_fk"
                     ELSE /\ IsStmt(srcLog[i + 1], "ADD CONSTRAINT", t, c)
                          /\ ~srcLog[i + 1].ok =>
                               /\ n = i + 2
                               /\ srcLog[n].op = "ROLLBACK"
                               /\ Returned /\ result = "False"
                ELSE /\ n = i + 1
                     /\ srcLog[n].op = "ROLLBACK"
                     /\ Returned /\ result = "False"

\* A sync that returned True after a foreign key needed the index and the
\* second ADD CONSTRAINT succeeded
C11_Witness ==
  /\ Returned /\ result = "True"
  /\ \E i \in DOMAIN srcLog :
       /\ srcLog[i].by = "sync" /\ srcLog[i].op = "ADD INDEX" /\ srcLog[i].ok
       /\ i > 1 /\ ~srcLog[i - 1].ok
       /\ i < Len(srcLog) /\ srcLog[i + 1].op = "ADD CONSTRAINT"
       /\ srcLog[i + 1].ok

\* The introspection queries the code sends to the target
TargetReadOps ==
  {"SHOW TABLES", "SHOW COLUMNS", "SHOW CREATE TABLE",
   "SELECT KEY_COLUMN_USAGE", "SELECT REFERENTIAL_CONSTRAINTS"}

\* C12: no step changes the target schema, and every statement executed on
\* the target connection is a read-only introspection query (no DDL, no SET
\* FOREIGN_KEY_CHECKS, no commit, no rollback).
C12_TargetNeverWritten ==
  [][/\ tgt' = tgt
     /\ \A i \in DOMAIN tgtLog' : tgtLog'[i].op \in TargetReadOps]_vars

\* A sync that read a CREATE TABLE statement and foreign-key rules from the
\* target and created the table and its foreign key on the source
C12_Witness ==
  /\ Returned /\ result = "True"
  /\ \E i \in DOMAIN tgtLog : tgtLog[i].op = "SHOW CREATE TABLE"
  /\ \E i \in DOMAIN tgtLog : tgtLog[i].op = "SELECT REFERENTIAL_CONSTRAINTS"
  /\ \E i \in DOMAIN srcLog : srcLog[i].op = "CREATE TABLE" /\ srcLog[i].ok
  /\ \E i \in DOMAIN srcLog :
       srcLog[i].op = "ADD CONSTRAINT" /\ srcLog[i].by = "sync" /\ srcLog[i].ok

\* C13: when sync_structures is run again after a run that returned True,
\* with no error in either run and nothing else touching the databases, the
\* second run's diff has no table missing in the source and no structurally
\* different table, and the second run leaves the source schema as it found
\* it.
C13_Idempotent ==
  (prev_result = "True" /\ faults = 0) =>
    /\ Compared =>
         /\ missing_in_source = {}
         /\ DOMAIN different_structures = {}
    /\ Returned => (srcCommitted = srcStart /\ src = srcStart)

\* C14: when connect() fails at the start of sync_structures (the target
\* attribute is still None when the call returns), sync_structures has
\* executed nothing on the source and has not returned True.
C14_ConnectFailureAborts ==
  (Returned /\ target_conn = "None") =>
    /\ srcLog = <<>>
    /\ result # "True"

\* C15: a call of close_connections raises nothing and leaves no connection
\* of the comparator open: an open connection becomes closed, one that was
\* never opened or is already closed stays as it is, nothing else changes,
\* and a call that follows another call changes nothing at all.
C15_CloseIdempotent ==
  [][closes' = closes + 1 =>
       /\ source_conn' = (IF source_conn = "open" THEN "closed" ELSE source_conn)
       /\ target_conn' = (IF target_conn = "open" THEN "closed" ELSE target_conn)
       /\ {source_conn', target_conn'} \subseteq {"None", "closed"}
       /\ closes >= 1 => UNCHANGED connVars
       /\ UNCHANGED <<dbVars, srcLog, tgtLog, result, orphans>>]_vars

\* close_connections was called twice after a connect that opened the source
\* connection and failed on the target
C15_Witness ==
  /\ closes = 2
  /\ source_conn = "closed"
  /\ target_conn = "None"

\* C16: in a run of main() no connection is opened while the attributes
\* still refer to open ones (so none is left open with no reference to it),
\* and when main() returns neither connection of the comparator is open.
C16_ConnectionsReleased ==
  /\ orphans = 0
  /\ stage = "exit" => (source_conn # "open" /\ target_conn # "open")

\* The foreign keys of a table in a schema, as column, referenced table and
\* referenced column
ForeignKeysOf(db, t) ==
  {<<f.col, f.ref_table, f.ref_col>> : f \in {g \in db.fks : g.table = t}}

\* The columns the recreated dosen_wali_prodi has, by name
FixedColumnNames ==
  <<"id", "nidn", "prodi_id", "tahun_ajar", "created_at", "updated_at">>

\* C17: once handle_dosen_tables has returned True, its statements on the
\* source end with DROP TABLE dosen_wali_prodi (which takes the table's
\* foreign keys with it), CREATE TABLE, SET FOREIGN_KEY_CHECKS=0, the two ADD
\* CONSTRAINT statements, SET FOREIGN_KEY_CHECKS=1 and COMMIT, in this order
\* and all successful; and the committed source holds dosen_wali_prodi with
\* the fixed columns and exactly the foreign keys nidn -> dosen.nidn and
\* prodi_id -> prodi.id_prodi.
C17_HandlerRebuilds ==
  handler_result = "True" =>
    /\ \E k \in DOMAIN srcLog :
         /\ k >= 7
         /\ \A j \in DOMAIN srcLog : srcLog[j].by = "handler" => j <= k
         /\ \A j \in (k - 6)..k : srcLog[j].by = "handler" /\ srcLog[j].ok
         /\ [j \in 1..7 |-> srcLog[k - 7 + j].op] =
              <<"DROP TABLE", "CREATE TABLE", "SET FOREIGN_KEY_CHECKS=0",
                "ADD CONSTRAINT", "ADD CONSTRAINT", "SET FOREIGN_KEY_CHECKS=1",
                "COMMIT">>
         /\ \A j \in (k - 6)..(k - 2) : srcLog[j].table = "dosen_wali_prodi"
                                          \/ srcLog[j].table = ""
         /\ srcLog[k - 3].arg = "nidn" /\ srcLog[k - 2].arg = "prodi_id"
    /\ "dosen_wali_prodi" \in srcCommitted.tables
    /\ [i \in DOMAIN srcCommitted.def["dosen_wali_prodi"].cols |->
          srcCommitted.def["dosen_wali_prodi"].cols[i].Field] = FixedColumnNames
    /\ ForeignKeysOf(srcCommitted, "dosen_wali_prodi") =
         {<<"nidn", "dosen", "nidn">>, <<"prodi_id", "prodi", "id_prodi">>}

\* The handler succeeded on a source whose dosen_wali_prodi had foreign keys,
\* the table itself equal to the target's (only dosen differed), and it
\* dropped them one by one before it dropped the table
C17_Witness ==
  /\ handler_result = "True"
  /\ "dosen_wali_prodi" \notin DOMAIN different_structures
  /\ "dosen_wali_prodi" \notin missing_in_source
  /\ ForeignKeysOf(srcStart, "dosen_wali_prodi") # {}
  /\ Cardinality({i \in DOMAIN srcLog :
                    srcLog[i].op = "DROP FOREIGN KEY" /\ srcLog[i].ok}) = 2

\* C18: no statement of a sync drops a table that the source held when the
\* run began, and when the run has returned every such table is still in
\* the committed source with every column it had.
C18_Additive ==
  /\ \A i \in DOMAIN srcLog :
       (srcLog[i].op = "DROP TABLE" /\ srcLog[i].ok) =>
         srcLog[i].table \notin srcStart.tables
  /\ Returned =>
       \A t \in srcStart.tables :
         /\ t \in srcCommitted.tables
         /\ Range(srcStart.def[t].cols) \subseteq Range(srcCommitted.def[t].cols)

\* C19: whenever sync_structures is about to execute a generic CREATE TABLE,
\* ADD CONSTRAINT or ADD INDEX on the source, the session's
\* FOREIGN_KEY_CHECKS is 0, whether or not handle_dosen_tables ran before.
C19_ChecksOffDuringDdl ==
  pc \in {"create", "add_fk", "create_index", "retry_fk"} => fkChecks = 0

\* C20: a statement of handle_dosen_tables that failed, other than the ADD
\* UNIQUE INDEX of step 2 (whose duplicate-index error is tolerated), is
\* followed at once by the rollback, the handler returns False, and no
\* statement of the handler comes after the rollback.
C20_HandlerFailureFatal ==
  \A i \in DOMAIN srcLog :
    (/\ srcLog[i].by = "handler"
     /\ ~srcLog[i].ok
     /\ srcLog[i].op # "ADD UNIQUE INDEX")
    => /\ handler_result = "False"
       /\ Len(srcLog) = i + 1
       /\ srcLog[i + 1].op = "ROLLBACK"

\* The introspection queries of the comparison that failed, read off the
\* two statement logs
ListingFailed(log) ==
  \E i \in DOMAIN log : log[i].op = "SHOW TABLES" /\ ~log[i].ok

ColumnsFailed(log, t) ==
  \E i \in DOMAIN log :
    log[i].op = "SHOW COLUMNS" /\ log[i].table = t /\ ~log[i].ok

\* C21: a failed introspection query does not end compare_structures, which
\* returns with the failed query's result taken as the empty list: a failed
\* SHOW TABLES on the source puts every table the target listing returned
\* into missing_in_source (every table of the target when that listing
\* succeeded); a common table whose SHOW COLUMNS failed on one side only is
\* in different_structures with the empty list for that side; a common table
\* whose SHOW COLUMNS failed on both sides is not in different_structures.
C21_IntrospectionSwallowed ==
  (srcLog # <<>> \/ tgtLog # <<>>) =>
    /\ stage = "compared"
    /\ ListingFailed(srcLog) =>
         /\ source_tables = {}
         /\ missing_in_source = target_tables
         /\ ~ListingFailed(tgtLog) => missing_in_source = tgt.tables
    /\ ListingFailed(tgtLog) => target_tables = {}
    /\ \A t \in source_tables \cap target_tables :
         /\ (ColumnsFailed(srcLog, t) /\ ~ColumnsFailed(tgtLog, t)) =>
              /\ t \in DOMAIN different_structures
              /\ different_structures[t].source = <<>>
              /\ different_structures[t].target = tgt.def[t].cols
         /\ (~ColumnsFailed(srcLog, t) /\ ColumnsFailed(tgtLog, t)) =>
              /\ t \in DOMAIN different_structures
              /\ different_structures[t].source = src.def[t].cols
              /\ different_structures[t].target = <<>>
         /\ (ColumnsFailed(srcLog, t) /\ ColumnsFailed(tgtLog, t)) =>
              t \notin DOMAIN different_structures

\* Two common tables with different columns on the two sides: the column
\* listing of one failed on both sides and it is reported equal, that of the
\* other failed on neither side and it is reported different
C21_Witness ==
  /\ stage = "compared"
  /\ \E t \in source_tables \cap target_tables :
       /\ ColumnsFailed(srcLog, t) /\ ColumnsFailed(tgtLog, t)
       /\ src.def[t].cols # tgt.def[t].cols
       /\ t \notin DOMAIN different_structures
  /\ DOMAIN different_structures # {}

\* The foreign key of the target that fk_stmt was built from
TargetRowOf(stmt) ==
  CHOOSE f \in tgt.fks : f.table = stmt.table /\ f.col = stmt.col

\* The clause the statement is to carry for a rule of the target's
\* REFERENTIAL_CONSTRAINTS row: none for RESTRICT, none without a row
ExpectedClause(has_row, rule) ==
  IF has_row /\ rule # "RESTRICT" THEN <<rule>> ELSE <<>>

\* C22: the ADD CONSTRAINT statement built for a foreign key of a newly
\* created table carries ON DELETE exactly when the target's
\* REFERENTIAL_CONSTRAINTS row gives a delete rule other than RESTRICT, and ON
\* UPDATE exactly when it gives an update rule other than RESTRICT, each with
\* the target's rule; without a row it carries neither clause.  The foreign
\* key the statement creates on the source has these rules.
C22_FkRulesPreserved ==
  /\ fk_stmt # NoFkStmt =>
       LET f == TargetRowOf(fk_stmt)
       IN  /\ \E g \in tgt.fks : g.table = fk_stmt.table /\ g.col = fk_stmt.col
           /\ fk_stmt.on_delete = ExpectedClause(f.has_row, f.delete_rule)
           /\ fk_stmt.on_update = ExpectedClause(f.has_row, f.update_rule)
           /\ fk_stmt.ref_table = f.ref_table /\ fk_stmt.ref_col = f.ref_col
  /\ \A g \in src.fks :
       (g.table \in GenericTables /\ g.table \in missing_in_source) =>
         \E f \in tgt.fks :
           /\ f.table = g.table /\ f.col = g.col
           /\ g.delete_rule =
                (IF f.has_row THEN f.delete_rule ELSE "RESTRICT")
           /\ g.update_rule =
                (IF f.has_row THEN f.update_rule ELSE "RESTRICT")

\* A sync that returned True after it re-added a foreign key whose delete
\* rule is RESTRICT and whose update rule is CASCADE: ON UPDATE CASCADE and
\* no ON DELETE
C22_Witness ==
  /\ Returned /\ result = "True"
  /\ fk_stmt # NoFkStmt
  /\ fk_stmt.on_delete = <<>>
  /\ fk_stmt.on_update = <<"CASCADE">>
  /\ \E g \in srcCommitted.fks :
       g.table = fk_stmt.table /\ g.update_rule = "CASCADE"

\* The statements handle_dosen_tables and the loop of sync_structures
\* execute on the source that name the table dosen
DosenOps == {"SELECT COUNT INDEX", "ADD UNIQUE INDEX"}

\* C23: no statement of sync_structures or handle_dosen_tables creates the
\* table dosen: the only statements that name it are the index look-up and
\* ADD UNIQUE INDEX of the handler.  So when the target has dosen and the
\* source had not when the sync began, the source has no dosen at any point
\* of the sync, and when the sync has returned dosen is still in the
\* difference target tables - source tables of the two databases.
C23_DosenNeverCreated ==
  /\ \A i \in DOMAIN srcLog :
       (srcLog[i].by \in {"sync", "handler"} /\ srcLog[i].table = "dosen") =>
         srcLog[i].op \in DosenOps
  /\ ("dosen" \in tgt.tables /\ "dosen" \notin srcStart.tables) =>
       /\ "dosen" \notin src.tables
       /\ "dosen" \notin srcCommitted.tables
       /\ Returned =>
            /\ "dosen" \in MissingInSource(srcCommitted.tables, tgt.tables)
            /\ ~NoDifference(MissingInSource(srcCommitted.tables, tgt.tables),
                             <<>>)

\* A sync found dosen and a generic table missing in the source, ran the
\* handler, whose ADD UNIQUE INDEX on the absent dosen failed, and returned
C23_Witness ==
  /\ Returned
  /\ "dosen" \in missing_in_source
  /\ missing_in_source \cap GenericTables # {}
  /\ \E i \in DOMAIN srcLog :
       srcLog[i].op = "ADD UNIQUE INDEX" /\ srcLog[i].table = "dosen"
  /\ "dosen" \notin srcCommitted.tables

\* The SET FOREIGN_KEY_CHECKS statements that succeeded, by position
SetsDone(value) ==
  {i \in DOMAIN srcLog :
     /\ srcLog[i].ok
     /\ srcLog[i].op = (IF value = 1 THEN "SET FOREIGN_KEY_CHECKS=1"
                        ELSE "SET FOREIGN_KEY_CHECKS=0")}

\* What the session flag is when only SET statements change it: the value of
\* the last one that succeeded, the session's initial 1 when there is none
FlagByStatements ==
  IF SetsDone(0) \cup SetsDone(1) = {} THEN 1
  ELSE IF \E i \in SetsDone(0) : \A j \in SetsDone(1) : j < i THEN 0
  ELSE 1

\* C24: the source session's FOREIGN_KEY_CHECKS is what the last successful
\* SET FOREIGN_KEY_CHECKS statement made it; no rollback and no return changes
\* it.  So once the sync has disabled the checks, they are enabled again only
\* by the SET FOREIGN_KEY_CHECKS=1 of the handler's step 4 or of the end of
\* the sync, and a sync that disabled them and returned False before either
\* statement succeeded (after a generic statement failed with the handler
\* not run, or after the handler failed before the end of its step 4) leaves
\* the session with the checks disabled.
C24_ChecksLeftDisabled ==
  /\ fkChecks = FlagByStatements
  /\ (Returned /\ result = "False" /\ SetsDone(0) # {} /\ SetsDone(1) = {}) =>
       /\ fkChecks = 0
       /\ srcLog[Len(srcLog)].op = "ROLLBACK"

\* A sync in which the handler did not run returned False after a generic
\* CREATE TABLE failed: rolled back, the checks still disabled
C24_Witness ==
  /\ Returned /\ result = "False"
  /\ handler_result = "none"
  /\ fkChecks = 0
  /\ Len(srcLog) >= 2
  /\ srcLog[Len(srcLog)].op = "ROLLBACK"
  /\ srcLog[Len(srcLog) - 1].op = "CREATE TABLE"
  /\ ~srcLog[Len(srcLog) - 1].ok

====
